---------------------------- MODULE Spec2Model ----------------------------
(***************************************************************************)
(* downtime-benchmarker (src/downtime-benchmarker/src/main.rs): the        *)
(* initial health check, the monitoring loop with its per-target           *)
(* failure-window tracker, the shutdown closure, print_report, and         *)
(* check_all's spawn/join of the per-target check tasks.                   *)
(*                                                                         *)
(* The specifications share the variables:                                 *)
(*   Spec      main(): one check_all call is one step (its result vector   *)
(*             is CheckAllResults of the per-task outcomes);               *)
(*   SpecFair  Spec where main() keeps running;                            *)
(*   SpecPoll  check_all(): tasks are spawned, finish in any order and are *)
(*             joined in handle order;                                     *)
(*   SpecProbe check_target(): one call on one target;                     *)
(*   SpecLoop  the monitoring loop with check_all() in the steps of        *)
(*             SpecPoll;                                                   *)
(*   SpecTimed the monitoring loop with the time its sleep and its polls   *)
(*             take.                                                       *)
(*                                                                         *)
(* Time.  Local::now() is read at three places of main (476, 511) and is   *)
(* the instant of a Ctrl+C.  `clock` is the latest instant any of them has *)
(* observed; a reading picks any instant from `clock` on (the wall clock   *)
(* is taken not to step backwards, which is what the window claims         *)
(* assume).  Two readings may return the same instant: the interval is a   *)
(* u64 that may be 0 and the clock has finite resolution.                  *)
(***************************************************************************)
EXTENDS Integers, Sequences, FiniteSets, TLC

\* ------------------------------------------------------------------ bounds
NumTargets == 2      \* targets.len() of the validated targets file (Spec)
PollTargets == 3     \* targets.len() of the check_all call of SpecPoll
MaxTicks   == 3      \* completed iterations of the monitoring loop
LoopTicks  == 2      \* completed iterations of the monitoring loop (SpecLoop)
MaxTime    == 2      \* instants 0..MaxTime
Interval   == 1      \* cli.check_interval, seconds (SpecTimed)
Timeout    == 2      \* cli.timeout, seconds (SpecTimed)
MinStatus  == 190    \* HTTP status codes MinStatus..MaxStatus (SpecProbe)
MaxStatus  == 410

Targets == 1..NumTargets
PollIds == 1..PollTargets

VARIABLES
    pc,              \* position of main()
    clock,           \* latest instant observed (see Time above)
    stop,            \* the AtomicBool `stop` (446)
    stopTime,        \* <<t>>: instant of the Ctrl+C that set `stop`; <<>> before
    stopAt,          \* position of main() when that Ctrl+C arrived; "" before
    initial_results, \* check_all's vector of the initial check (403); <<>> before
    states,          \* Vec<TargetState> (454); <<>> until it is built
    results,         \* `results` of the latest check_all call
    fed,             \* history: fed[i] = the results target i's tracker consumed
    tickTs,          \* history: tickTs[k] = `now` of the k-th loop iteration (476)
    shutdownTs,      \* <<t>>: `now` read after the loop (511); <<>> before
    snapshots,       \* number of print_status_block calls (503)
    status_block,    \* the lines of the latest print_status_block call; <<>> before
    report,          \* what print_report printed
    exitCode,        \* <<c>> once std::process::exit(c) ran
    tasks,           \* check_all: tasks[i] = state of the task spawned for target i
    joined,          \* check_all: number of handles awaited so far
    finishOrder,     \* check_all history: task ids in the order they finished
    probe            \* check_target: its target, what the network did, its result

mainVars == <<pc, clock, stop, stopTime, stopAt, initial_results, states, results,
              fed, tickTs, shutdownTs, snapshots, status_block, report, exitCode>>
pollVars == <<tasks, joined, finishOrder>>
vars     == <<pc, clock, stop, stopTime, stopAt, initial_results, states, results,
              fed, tickTs, shutdownTs, snapshots, status_block, report, exitCode,
              tasks, joined, finishOrder, probe>>

\* ------------------------------------------------------------ pure helpers
Front(s) == SubSeq(s, 1, Len(s) - 1)
Last(s)  == s[Len(s)]

\* i64::max (202)
Max(a, b) == IF a >= b THEN a ELSE b

\* Outcome of one spawned check task: check_target returned true / false,
\* or the task could not be joined (JoinError).
Outcomes == {"true", "false", "join_error"}

\* handle.await.unwrap_or(false) (534).  Variant: unwrap_or(true).
JoinResultTrueOnError(o) == o # "false"
JoinResult(o) == o = "true"

\* check_all (523-537): one boolean per target, in target order.
CheckAllResults(outcome) == [i \in Targets |-> JoinResult(outcome[i])]

\* all_ok of the initial check (405-427).  Variant: all_ok starts false and
\* is set by a healthy target.
AllOkAny(rs) == \E i \in 1..Len(rs) : rs[i]
AllOk(rs) == \A i \in 1..Len(rs) : rs[i]


\* --------------------------------------------------- failure-window tracker
\* FailureWindow { start: now, end: now } (495-498)
NewWindow(now) == [start |-> now, end |-> now]

\* if let Some(window) = failures.last_mut() { window.end = now; }
\* (483-485, 490-492, 514-516).  Variants: the first window is stamped; the
\* start is assigned.
SetFirstEnd(failures, now) ==
    IF failures = <<>> THEN failures
    ELSE [failures EXCEPT ![1].end = now]
SetLastStart(failures, now) ==
    IF failures = <<>> THEN failures
    ELSE [failures EXCEPT ![Len(failures)].start = now]
SetLastEnd(failures, now) ==
    IF failures = <<>> THEN failures
    ELSE [failures EXCEPT ![Len(failures)].end = now]

\* TargetState of target t as built at 454-461
InitState(t) == [target |-> t, is_failing |-> FALSE, failures |-> <<>>]

\* Body of the `for (state, &ok)` loop (479-501) for one target.  Variants:
\* the new window is inserted at the front; a window is pushed on every
\* failing tick; the recovery tick does not stamp the end.
UpdateStatePushFront(state, ok, now) ==
    IF ok
    THEN IF state.is_failing
         THEN [state EXCEPT !.failures = SetLastEnd(@, now), !.is_failing = FALSE]
         ELSE state
    ELSE IF state.is_failing
         THEN [state EXCEPT !.failures = SetLastEnd(@, now)]
         ELSE [state EXCEPT !.failures = <<NewWindow(now)>> \o @, !.is_failing = TRUE]
UpdateStatePushAlways(state, ok, now) ==
    IF ok
    THEN IF state.is_failing
         THEN [state EXCEPT !.failures = SetLastEnd(@, now), !.is_failing = FALSE]
         ELSE state
    ELSE [state EXCEPT !.failures = Append(@, NewWindow(now)), !.is_failing = TRUE]
UpdateStateNoRecoveryStamp(state, ok, now) ==
    IF ok
    THEN IF state.is_failing
         THEN [state EXCEPT !.is_failing = FALSE]
         ELSE state
    ELSE IF state.is_failing
         THEN [state EXCEPT !.failures = SetLastEnd(@, now)]
         ELSE [state EXCEPT !.failures = Append(@, NewWindow(now)), !.is_failing = TRUE]
UpdateState(state, ok, now) ==
    IF ok
    THEN IF state.is_failing
         THEN [state EXCEPT !.failures = SetLastEnd(@, now), !.is_failing = FALSE]
         ELSE state
    ELSE IF state.is_failing
         THEN [state EXCEPT !.failures = SetLastEnd(@, now)]
         ELSE [state EXCEPT !.failures = Append(@, NewWindow(now)), !.is_failing = TRUE]

\* states.iter_mut().zip(results.iter()) (479): pairs up to the shorter length.
\* Variant: every state is paired with the first result.
UpdateStatesSharedResult(sts, rs, now) ==
    [i \in 1..Len(sts) |->
        IF i <= Len(rs) THEN UpdateState(sts[i], rs[1], now) ELSE sts[i]]
UpdateStates(sts, rs, now) ==
    [i \in 1..Len(sts) |->
        IF i <= Len(rs) THEN UpdateState(sts[i], rs[i], now) ELSE sts[i]]

\* Body of the `for state in &mut states` loop after the monitoring loop
\* (512-518) for one target.  Variants: is_failing is not tested; nothing
\* is closed.
CloseOpenAll(state, now) == [state EXCEPT !.failures = SetLastEnd(@, now)]
CloseOpenNever(state, now) == state
CloseOpen(state, now) ==
    IF state.is_failing
    THEN [state EXCEPT !.failures = SetLastEnd(@, now)]
    ELSE state

\* ------------------------------------------------------------ check_target
\* What one call of check_target meets: the target's check kind; for Http the
\* outcome of Client::builder().build() (216-224) and of send().await
\* (225-231) with the status of the response; for Tcp the host and the
\* outcome of timeout(dur, TcpStream::connect(..)) (240-242).
HttpProbes ==
    [kind : {"http"}, client : {"ok", "error"},
     send : {"response", "error", "timeout"}, status : MinStatus..MaxStatus,
     host : {""}, connect : {""}, result : {<<>>}]
TcpProbes ==
    [kind : {"tcp"}, client : {""}, send : {""}, status : {0},
     host : {"::1", "127.0.0.1", "example.org"},
     connect : {"connected", "refused", "timeout"}, result : {<<>>}]
NoProbe ==
    [kind |-> "", client |-> "", send |-> "", status |-> 0, host |-> "",
     connect |-> "", result |-> <<>>]

\* (200..400).contains(&status) (228).  Variant: 200..=400.
StatusHealthyInclusive(status) == status >= 200 /\ status <= 400
StatusHealthy(status) == status >= 200 /\ status < 400

\* host.contains(':') (234) for the hosts of TcpProbes
ContainsColon(host) == host \in {"::1"}

\* addr_str (234-239), as the pieces format! joins
addr_str(host, port) ==
    IF ContainsColon(host) THEN <<"[", host, "]:", port>> ELSE <<host, ":", port>>

\* check_target (212-245)
check_target(p) ==
    IF p.kind = "http"
    THEN IF p.client = "error" THEN FALSE
         ELSE IF p.send = "response" THEN StatusHealthy(p.status)
         ELSE FALSE
    ELSE p.connect = "connected"

\* ------------------------------------------------------- print_status_block
\* print_status_block (247-261): one line per (state, result) pair of the zip.
print_status_blockFirstResult(sts, rs) ==
    [k \in 1..(IF Len(sts) <= Len(rs) THEN Len(sts) ELSE Len(rs)) |->
        [target |-> sts[k].target, ok |-> rs[1]]]
print_status_block(sts, rs) ==
    [k \in 1..(IF Len(sts) <= Len(rs) THEN Len(sts) ELSE Len(rs)) |->
        [target |-> sts[k].target, ok |-> rs[k]]]

\* ------------------------------------------------------------ print_report
\* FailureWindow::duration_secs (201-203).  Variant: without .max(1).
duration_secsRaw(w) == w.end - w.start
duration_secs(w) == Max(w.end - w.start, 1)

\* The sort key of 285: s.failures.first().map(|f| f.start).  Every element
\* sorted has a first window (filter of 272), so the key is Some(start).
FirstStart(s) == s.failures[1].start

\* One step of the stable sort of 285: s goes behind every element whose key
\* is not greater than its own.  Variant: before the elements of equal key.
InsertByKeyUnstable(sorted, s) ==
    LET p == Cardinality({j \in 1..Len(sorted) : FirstStart(sorted[j]) < FirstStart(s)})
    IN  SubSeq(sorted, 1, p) \o <<s>> \o SubSeq(sorted, p + 1, Len(sorted))
InsertByKey(sorted, s) ==
    LET p == Cardinality({j \in 1..Len(sorted) : FirstStart(sorted[j]) <= FirstStart(s)})
    IN  SubSeq(sorted, 1, p) \o <<s>> \o SubSeq(sorted, p + 1, Len(sorted))

\* failed_targets.sort_by_key(..) (285): slice::sort_by_key is a stable sort.
RECURSIVE SortByKey(_)
SortByKey(seq) ==
    IF seq = <<>> THEN <<>>
    ELSE InsertByKey(SortByKey(Front(seq)), Last(seq))

\* Iterator::min over the first starts (287-291).  Variant: max.
RECURSIVE MaxOf(_)
MaxOf(ts) ==
    IF Len(ts) = 1 THEN ts[1]
    ELSE LET m == MaxOf(Front(ts)) IN IF Last(ts) > m THEN Last(ts) ELSE m
RECURSIVE MinOf(_)
MinOf(ts) ==
    IF Len(ts) = 1 THEN ts[1]
    ELSE LET m == MinOf(Front(ts)) IN IF Last(ts) < m THEN Last(ts) ELSE m

\* i64 sum of an iterator (309)
RECURSIVE Sum(_)
Sum(ns) == IF ns = <<>> THEN 0 ELSE Sum(Front(ns)) + Last(ns)

\* The lines print_report prints for one target (308-335)
TargetLines(s) ==
    [target   |-> s.target,
     downtime |-> Sum([k \in 1..Len(s.failures) |-> duration_secs(s.failures[k])]),
     count    |-> Len(s.failures),
     windows  |-> [k \in 1..Len(s.failures) |->
                      [dur |-> duration_secs(s.failures[k]),
                       start |-> s.failures[k].start]]]

NoReport ==
    [emitted |-> FALSE, no_downtime |-> FALSE, earliest |-> <<>>,
     details |-> <<>>, total |-> 0]

\* print_report (263-343).  Variant: the "no downtime" branch is taken for
\* an empty state list instead of an empty failed_targets.
print_reportNoEmptyCase(sts) ==
    LET failed_targets == SelectSeq(sts, LAMBDA s : s.failures # <<>>)
        sorted  == SortByKey(failed_targets)
        details == [k \in 1..Len(sorted) |-> TargetLines(sorted[k])]
    IN  IF sts = <<>>
        THEN [emitted |-> TRUE, no_downtime |-> TRUE, earliest |-> <<>>,
              details |-> <<>>, total |-> 0]
        ELSE [emitted |-> TRUE, no_downtime |-> FALSE,
              earliest |-> IF sorted = <<>> THEN <<>>
                           ELSE <<MinOf([k \in 1..Len(sorted) |-> FirstStart(sorted[k])])>>,
              details |-> details,
              total |-> Sum([k \in 1..Len(details) |-> details[k].downtime])]
print_report(sts) ==
    LET failed_targets == SelectSeq(sts, LAMBDA s : s.failures # <<>>)
        sorted  == SortByKey(failed_targets)
        details == [k \in 1..Len(sorted) |-> TargetLines(sorted[k])]
    IN  IF failed_targets = <<>>
        THEN [emitted |-> TRUE, no_downtime |-> TRUE, earliest |-> <<>>,
              details |-> <<>>, total |-> 0]
        ELSE [emitted |-> TRUE, no_downtime |-> FALSE,
              earliest |-> <<MinOf([k \in 1..Len(sorted) |-> FirstStart(sorted[k])])>>,
              details |-> details,
              total |-> Sum([k \in 1..Len(details) |-> details[k].downtime])]


\* =================================================================== main()
\* A reading of Local::now(): any instant not before the latest one observed.
Readings == clock..MaxTime

Init ==
    /\ pc = "initial_check"
    /\ clock = 0
    /\ stop = FALSE
    /\ stopTime = <<>>
    /\ stopAt = ""
    /\ initial_results = <<>>
    /\ states = <<>>
    /\ results = <<>>
    /\ fed = [i \in Targets |-> <<>>]
    /\ tickTs = <<>>
    /\ shutdownTs = <<>>
    /\ snapshots = 0
    /\ status_block = <<>>
    /\ report = NoReport
    /\ exitCode = <<>>
    /\ tasks = [i \in PollIds |-> "unspawned"]
    /\ joined = 0
    /\ finishOrder = <<>>
    /\ probe = NoProbe

\* 399-461: the initial check_all, the all_ok scan, exit(1) or the Ctrl+C
\* handler and the initial TargetStates.
InitialCheck ==
    /\ pc = "initial_check"
    /\ \E outcome \in [Targets -> Outcomes] :
         LET rs == CheckAllResults(outcome) IN
         /\ initial_results' = rs
         /\ results' = rs
         /\ IF AllOk(rs)
            THEN /\ states' = [i \in Targets |-> InitState(i)]
                 /\ pc' = "loop_top"
                 /\ exitCode' = exitCode
            ELSE /\ states' = states
                 /\ pc' = "exited"
                 /\ exitCode' = <<1>>
    /\ UNCHANGED <<clock, stop, stopTime, stopAt, fed, tickTs, shutdownTs,
                   snapshots, status_block, report>>
    /\ UNCHANGED pollVars
    /\ UNCHANGED probe

\* 448-450: the handler stores true into `stop`.  It is installed once the
\* initial check has passed; a later Ctrl+C stores the same value again.
CtrlC ==
    /\ pc \in {"loop_top", "sleep", "check_all"}
    /\ ~stop
    /\ \E t \in Readings :
         /\ stop' = TRUE
         /\ stopTime' = <<t>>
         /\ stopAt' = pc
         /\ clock' = t
    /\ UNCHANGED <<pc, initial_results, states, results, fed, tickTs, shutdownTs,
                   snapshots, status_block, report, exitCode>>
    /\ UNCHANGED pollVars
    /\ UNCHANGED probe

\* 464-467: the read of `stop` at the top of the loop.  Variant: the test
\* is negated.
LoopTopNegated ==
    /\ pc = "loop_top"
    /\ IF ~stop
       THEN pc' = "close_open"
       ELSE /\ Len(tickTs) < MaxTicks
            /\ pc' = "sleep"
    /\ UNCHANGED <<clock, stop, stopTime, stopAt, initial_results, states, results, fed,
                   tickTs, shutdownTs, snapshots, status_block, report, exitCode>>
    /\ UNCHANGED pollVars
    /\ UNCHANGED probe
LoopTop ==
    /\ pc = "loop_top"
    /\ IF stop
       THEN pc' = "close_open"
       ELSE /\ Len(tickTs) < MaxTicks
            /\ pc' = "sleep"
    /\ UNCHANGED <<clock, stop, stopTime, stopAt, initial_results, states, results, fed,
                   tickTs, shutdownTs, snapshots, status_block, report, exitCode>>
    /\ UNCHANGED pollVars
    /\ UNCHANGED probe

\* 469-473: the sleep ends and `stop` is read again.  Variant: it is not.
AfterSleepNoRead ==
    /\ pc = "sleep"
    /\ pc' = "check_all"
    /\ UNCHANGED <<clock, stop, stopTime, stopAt, initial_results, states, results, fed,
                   tickTs, shutdownTs, snapshots, status_block, report, exitCode>>
    /\ UNCHANGED pollVars
    /\ UNCHANGED probe
AfterSleep ==
    /\ pc = "sleep"
    /\ pc' = IF stop THEN "close_open" ELSE "check_all"
    /\ UNCHANGED <<clock, stop, stopTime, stopAt, initial_results, states, results, fed,
                   tickTs, shutdownTs, snapshots, status_block, report, exitCode>>
    /\ UNCHANGED pollVars
    /\ UNCHANGED probe

\* 475-507: check_all returns, now is read, every TargetState is updated and
\* the status block is printed.
Tick ==
    /\ pc = "check_all"
    /\ \E outcome \in [Targets -> Outcomes], now \in Readings :
         LET rs == CheckAllResults(outcome) IN
         /\ results' = rs
         /\ clock' = now
         /\ states' = UpdateStates(states, rs, now)
         /\ fed' = [i \in Targets |-> Append(fed[i], rs[i])]
         /\ tickTs' = Append(tickTs, now)
    /\ snapshots' = snapshots + 1
    /\ status_block' = print_status_block(states', results')
    /\ pc' = "loop_top"
    /\ UNCHANGED <<stop, stopTime, stopAt, initial_results, shutdownTs, report, exitCode>>
    /\ UNCHANGED pollVars
    /\ UNCHANGED probe

\* 510-518: now is read after the loop and the windows still open are closed.
CloseOpenWindows ==
    /\ pc = "close_open"
    /\ \E now \in Readings :
         /\ shutdownTs' = <<now>>
         /\ clock' = now
         /\ states' = [i \in 1..Len(states) |-> CloseOpen(states[i], now)]
    /\ pc' = "print_report"
    /\ UNCHANGED <<stop, stopTime, stopAt, initial_results, results, fed, tickTs,
                   snapshots, status_block, report, exitCode>>
    /\ UNCHANGED pollVars
    /\ UNCHANGED probe

\* 520: print_report(&states), then main returns.
PrintReport ==
    /\ pc = "print_report"
    /\ report' = print_report(states)
    /\ pc' = "done"
    /\ UNCHANGED <<clock, stop, stopTime, stopAt, initial_results, states, results, fed,
                   tickTs, shutdownTs, snapshots, status_block, exitCode>>
    /\ UNCHANGED pollVars
    /\ UNCHANGED probe

Next ==
    \/ InitialCheck
    \/ CtrlC
    \/ LoopTop
    \/ AfterSleep
    \/ Tick
    \/ CloseOpenWindows
    \/ PrintReport

Spec == Init /\ [][Next]_vars

\* The step of main() that leaves line 520: under Next it is PrintReport.
ReportStep == pc = "print_report" /\ pc' = "done"

\* main() keeps running: the sleep of 469 ends, check_all returns (every
\* check ends or times out: 217, 240) and the straight-line code between
\* them is executed.  Nothing makes a Ctrl+C arrive.  The fairness of the
\* last step is stated on ReportStep, which is enabled exactly when
\* PrintReport is and is taken exactly by PrintReport steps.
SpecFair ==
    /\ Init
    /\ [][Next]_vars
    /\ WF_vars(InitialCheck)
    /\ WF_vars(LoopTop)
    /\ WF_vars(AfterSleep)
    /\ WF_vars(Tick)
    /\ WF_vars(CloseOpenWindows)
    /\ WF_pc(ReportStep)

\* ============================================================== check_all()
\* One call of check_all on PollTargets targets.
InitPoll ==
    /\ pc = "spawn"
    /\ clock = 0
    /\ stop = FALSE
    /\ stopTime = <<>>
    /\ stopAt = ""
    /\ initial_results = <<>>
    /\ states = <<>>
    /\ results = <<>>
    /\ fed = [i \in Targets |-> <<>>]
    /\ tickTs = <<>>
    /\ shutdownTs = <<>>
    /\ snapshots = 0
    /\ status_block = <<>>
    /\ report = NoReport
    /\ exitCode = <<>>
    /\ tasks = [i \in PollIds |-> "unspawned"]
    /\ joined = 0
    /\ finishOrder = <<>>
    /\ probe = NoProbe

Spawned == {i \in PollIds : tasks[i] # "unspawned"}

\* 525-530: the next target's check is spawned; after the last one the
\* join loop starts.
SpawnNext ==
    /\ pc = "spawn"
    /\ LET i == Cardinality(Spawned) + 1 IN
       /\ tasks' = [tasks EXCEPT ![i] = "running"]
       /\ pc' = IF i = PollTargets THEN "join" ELSE "spawn"
    /\ UNCHANGED <<joined, finishOrder>>
    /\ UNCHANGED <<clock, stop, stopTime, stopAt, initial_results, states, results, fed,
                   tickTs, shutdownTs, snapshots, status_block, report, exitCode>>
    /\ UNCHANGED probe

\* 528: a spawned task ends: check_target returned a boolean (212-245), or
\* the task ended without one (it panicked or was aborted).
TaskFinish(i) ==
    /\ tasks[i] = "running"
    /\ \E o \in Outcomes : tasks' = [tasks EXCEPT ![i] = o]
    /\ finishOrder' = Append(finishOrder, i)
    /\ UNCHANGED joined
    /\ UNCHANGED mainVars
    /\ UNCHANGED probe

\* The handle awaited by the join loop (533): handles are taken in the order
\* they were pushed, which is target order.  Variant: the handle of the
\* task that finished next.
NextHandleByCompletion ==
    IF joined < Len(finishOrder) THEN finishOrder[joined + 1] ELSE joined + 1
NextHandle == joined + 1

\* 533-535: handle.await completes once its task has ended; the result is
\* pushed.  After the last push check_all returns `results` (536).
\* Variant: check_all returns after the first handle.
JoinNextFirstOnly ==
    /\ pc = "join"
    /\ tasks[NextHandle] \in Outcomes
    /\ results' = Append(results, JoinResult(tasks[NextHandle]))
    /\ joined' = joined + 1
    /\ pc' = "returned"
    /\ UNCHANGED <<tasks, finishOrder>>
    /\ UNCHANGED <<clock, stop, stopTime, stopAt, initial_results, states, fed,
                   tickTs, shutdownTs, snapshots, status_block, report, exitCode>>
    /\ UNCHANGED probe
JoinNext ==
    /\ pc = "join"
    /\ tasks[NextHandle] \in Outcomes
    /\ results' = Append(results, JoinResult(tasks[NextHandle]))
    /\ joined' = joined + 1
    /\ pc' = IF joined' = PollTargets THEN "returned" ELSE "join"
    /\ UNCHANGED <<tasks, finishOrder>>
    /\ UNCHANGED <<clock, stop, stopTime, stopAt, initial_results, states, fed,
                   tickTs, shutdownTs, snapshots, status_block, report, exitCode>>
    /\ UNCHANGED probe

NextPoll ==
    \/ SpawnNext
    \/ \E i \in PollIds : TaskFinish(i)
    \/ JoinNext

SpecPoll == InitPoll /\ [][NextPoll]_vars


\* ============================================================ check_target()
\* One call of check_target.
InitProbe ==
    /\ pc = "check_target"
    /\ clock = 0
    /\ stop = FALSE
    /\ stopTime = <<>>
    /\ stopAt = ""
    /\ initial_results = <<>>
    /\ states = <<>>
    /\ results = <<>>
    /\ fed = [i \in Targets |-> <<>>]
    /\ tickTs = <<>>
    /\ shutdownTs = <<>>
    /\ snapshots = 0
    /\ status_block = <<>>
    /\ report = NoReport
    /\ exitCode = <<>>
    /\ tasks = [i \in PollIds |-> "unspawned"]
    /\ joined = 0
    /\ finishOrder = <<>>
    /\ probe \in HttpProbes \cup TcpProbes

\* 212-245: check_target returns its boolean.
CheckTarget ==
    /\ pc = "check_target"
    /\ probe' = [probe EXCEPT !.result = <<check_target(probe)>>]
    /\ pc' = "checked"
    /\ UNCHANGED <<clock, stop, stopTime, stopAt, initial_results, states, results,
                   fed, tickTs, shutdownTs, snapshots, status_block, report, exitCode>>
    /\ UNCHANGED pollVars

NextProbe == CheckTarget

SpecProbe == InitProbe /\ [][NextProbe]_vars

\* ========================================= main() with check_all() in steps
\* The monitoring loop of a run with PollTargets targets, from the entry of
\* the loop (after 461), where each check_all call of 475 is the spawn/join
\* of SpecPoll.
InitLoop ==
    /\ pc = "loop_top"
    /\ clock = 0
    /\ stop = FALSE
    /\ stopTime = <<>>
    /\ stopAt = ""
    /\ initial_results = [i \in PollIds |-> TRUE]
    /\ states = [i \in PollIds |-> InitState(i)]
    /\ results = [i \in PollIds |-> TRUE]
    /\ fed = [i \in Targets |-> <<>>]
    /\ tickTs = <<>>
    /\ shutdownTs = <<>>
    /\ snapshots = 0
    /\ status_block = <<>>
    /\ report = NoReport
    /\ exitCode = <<>>
    /\ tasks = [i \in PollIds |-> "unspawned"]
    /\ joined = 0
    /\ finishOrder = <<>>
    /\ probe = NoProbe

\* 464-467 for at most LoopTicks iterations
LoopTopBounded == LoopTop /\ (stop \/ Len(tickTs) < LoopTicks)

\* 475, 524, 532: check_all is called: `handles` and `results` are new and
\* empty, no task of this call is spawned yet.
PollStart ==
    /\ pc = "check_all"
    /\ pc' = "spawn"
    /\ tasks' = [i \in PollIds |-> "unspawned"]
    /\ joined' = 0
    /\ finishOrder' = <<>>
    /\ results' = <<>>
    /\ UNCHANGED <<clock, stop, stopTime, stopAt, initial_results, states, fed,
                   tickTs, shutdownTs, snapshots, status_block, report, exitCode>>
    /\ UNCHANGED probe

\* 448-450 while check_all is running or has just returned
CtrlCPoll ==
    /\ pc \in {"spawn", "join", "returned"}
    /\ ~stop
    /\ \E t \in Readings :
         /\ stop' = TRUE
         /\ stopTime' = <<t>>
         /\ stopAt' = "check_all"
         /\ clock' = t
    /\ UNCHANGED <<pc, initial_results, states, results, fed, tickTs, shutdownTs,
                   snapshots, status_block, report, exitCode>>
    /\ UNCHANGED pollVars
    /\ UNCHANGED probe

\* 476-507: now is read, every TargetState is updated with the vector
\* check_all returned and the status block is printed.
TickJoined ==
    /\ pc = "returned"
    /\ \E now \in Readings :
         /\ clock' = now
         /\ states' = UpdateStates(states, results, now)
         /\ tickTs' = Append(tickTs, now)
    /\ fed' = [i \in Targets |-> IF i <= Len(results)
                                  THEN Append(fed[i], results[i]) ELSE fed[i]]
    /\ snapshots' = snapshots + 1
    /\ status_block' = print_status_block(states', results)
    /\ pc' = "loop_top"
    /\ UNCHANGED <<stop, stopTime, stopAt, initial_results, results, shutdownTs,
                   report, exitCode>>
    /\ UNCHANGED pollVars
    /\ UNCHANGED probe

NextLoop ==
    \/ CtrlC
    \/ CtrlCPoll
    \/ LoopTopBounded
    \/ AfterSleep
    \/ PollStart
    \/ SpawnNext
    \/ \E i \in PollIds : TaskFinish(i)
    \/ JoinNext
    \/ TickJoined
    \/ CloseOpenWindows
    \/ PrintReport

SpecLoop == InitLoop /\ [][NextLoop]_vars

\* ================================================== main() with elapsed time
\* The monitoring loop from its entry, where `clock` is the instant the
\* current activity of main() began.  Time passes in the sleep of 469
\* (Interval) and in check_all (475); the straight-line code takes none.  A
\* Ctrl+C during an activity is given an instant of that activity, and the
\* activity ends at or after it.
InitTimed ==
    /\ pc = "loop_top"
    /\ clock = 0
    /\ stop = FALSE
    /\ stopTime = <<>>
    /\ stopAt = ""
    /\ initial_results = [i \in Targets |-> TRUE]
    /\ states = [i \in Targets |-> InitState(i)]
    /\ results = [i \in Targets |-> TRUE]
    /\ fed = [i \in Targets |-> <<>>]
    /\ tickTs = <<>>
    /\ shutdownTs = <<>>
    /\ snapshots = 0
    /\ status_block = <<>>
    /\ report = NoReport
    /\ exitCode = <<>>
    /\ tasks = [i \in PollIds |-> "unspawned"]
    /\ joined = 0
    /\ finishOrder = <<>>
    /\ probe = NoProbe

\* What one check_target call can take: the client timeout of 217 and the
\* timeout() of 240 end it after timeout_secs at the latest.
CheckDurations == 0..Timeout

\* What check_all takes when its tasks take d[i]: the tasks are all spawned
\* (525-530) before the first is awaited (533-535), so they run together
\* and the last one to end decides.  Variant: one after the other.
PollDurationSequential(d) == Sum(d)
PollDuration(d) == CHOOSE m \in {d[i] : i \in Targets} : \A i \in Targets : d[i] <= m

\* How long main() stays at a position
Span(at) == IF at = "sleep" THEN Interval ELSE IF at = "check_all" THEN Timeout ELSE 0

\* 448-450 at an instant of the current activity
CtrlCTimed ==
    /\ pc \in {"loop_top", "sleep", "check_all"}
    /\ ~stop
    /\ \E t \in clock..(clock + Span(pc)) :
         /\ stop' = TRUE
         /\ stopTime' = <<t>>
         /\ stopAt' = pc
    /\ UNCHANGED <<pc, clock, initial_results, states, results, fed, tickTs,
                   shutdownTs, snapshots, status_block, report, exitCode>>
    /\ UNCHANGED pollVars
    /\ UNCHANGED probe

\* 469-473: the sleep ends Interval after it began and `stop` is read.
SleepEnd ==
    /\ pc = "sleep"
    /\ clock' = clock + Interval
    /\ pc' = IF stop THEN "close_open" ELSE "check_all"
    /\ UNCHANGED <<stop, stopTime, stopAt, initial_results, states, results, fed,
                   tickTs, shutdownTs, snapshots, status_block, report, exitCode>>
    /\ UNCHANGED pollVars
    /\ UNCHANGED probe

\* 475-507: check_all returns when its tasks have ended, now is read, the
\* states are updated and the status block is printed.
TickTimed ==
    /\ pc = "check_all"
    /\ \E outcome \in [Targets -> Outcomes], d \in [Targets -> CheckDurations] :
         LET rs  == CheckAllResults(outcome)
             now == clock + PollDuration(d)
         IN  /\ (stop /\ stopAt = "check_all") => stopTime[1] <= now
             /\ results' = rs
             /\ clock' = now
             /\ states' = UpdateStates(states, rs, now)
             /\ fed' = [i \in Targets |-> Append(fed[i], rs[i])]
             /\ tickTs' = Append(tickTs, now)
    /\ snapshots' = snapshots + 1
    /\ status_block' = print_status_block(states', results')
    /\ pc' = "loop_top"
    /\ UNCHANGED <<stop, stopTime, stopAt, initial_results, shutdownTs, report, exitCode>>
    /\ UNCHANGED pollVars
    /\ UNCHANGED probe

\* 510-518 at the instant the loop was left
CloseOpenTimed ==
    /\ pc = "close_open"
    /\ shutdownTs' = <<clock>>
    /\ states' = [i \in 1..Len(states) |-> CloseOpen(states[i], clock)]
    /\ pc' = "print_report"
    /\ UNCHANGED <<clock, stop, stopTime, stopAt, initial_results, results, fed, tickTs,
                   snapshots, status_block, report, exitCode>>
    /\ UNCHANGED pollVars
    /\ UNCHANGED probe

NextTimed ==
    \/ CtrlCTimed
    \/ LoopTop
    \/ SleepEnd
    \/ TickTimed
    \/ CloseOpenTimed
    \/ PrintReport

SpecTimed == InitTimed /\ [][NextTimed]_vars

\* ================================================================ properties
Windows(i) == states[i].failures
StateIds == 1..Len(states)
AfterLoop == pc \in {"print_report", "done"}

StrictlyIncreasing(ts) == \A k \in 1..(Len(ts) - 1) : ts[k] < ts[k + 1]

\* Healthy -> Failing transitions of a result sequence consumed from status
\* Healthy: a false result that is the first one or follows a true one.
Transitions(rs) ==
    Cardinality({k \in 1..Len(rs) : ~rs[k] /\ (k = 1 \/ rs[k - 1])})

\* First tick of the maximal run of failing ticks that ends at tick b
\* (rs[b] is false).
RECURSIVE RunStart(_, _)
RunStart(rs, b) ==
    IF b = 1 \/ rs[b - 1] THEN b ELSE RunStart(rs, b - 1)

\* C1: when the tick timestamps increase from tick to tick, any two
\* consecutive windows w, w' of one target satisfy w.end <= w'.start and
\* w.start < w'.start, in every reachable state.
C1_WindowsOrdered ==
    StrictlyIncreasing(tickTs) =>
        \A i \in StateIds : \A k \in 1..(Len(Windows(i)) - 1) :
            /\ Windows(i)[k].end <= Windows(i)[k + 1].start
            /\ Windows(i)[k].start < Windows(i)[k + 1].start

C1_Witness ==
    /\ StrictlyIncreasing(tickTs)
    /\ \E i \in StateIds : Len(Windows(i)) >= 2

\* C2: after every tick the number of windows of a target equals the number
\* of Healthy -> Failing transitions in the results it has consumed so far
\* (so a window is appended on such a tick and on no other).
C2_WindowCount ==
    \A i \in StateIds : Len(Windows(i)) = Transitions(fed[i])

C2_Witness ==
    \E i \in StateIds :
        /\ fed[i] = <<FALSE, FALSE, TRUE>>
        /\ Len(Windows(i)) = 1

\* C3: a maximal run of failing ticks a..b ended by the successful tick b+1
\* (every successful tick c = b+1 that follows a failing one ends such a run,
\* begun at a = RunStart) has its own window, the one opened by the run's transition, with start =
\* the timestamp of tick a and end = the timestamp of tick b+1; there are as
\* many windows as runs begun; with unit tick spacing the window's duration
\* is (failing ticks + the closing tick) - 1.
C3_RunWindow ==
    \A i \in StateIds :
        /\ Len(Windows(i)) = Transitions(fed[i])
        /\ \A c \in 2..Len(fed[i]) :
             (fed[i][c] /\ ~fed[i][c - 1]) =>
                LET b == c - 1
                    a == RunStart(fed[i], b)
                    n == Transitions(SubSeq(fed[i], 1, a))
                IN  /\ n \in 1..Len(Windows(i))
                    /\ Windows(i)[n].start = tickTs[a]
                    /\ Windows(i)[n].end = tickTs[b + 1]
                    /\ (\A k \in a..b : tickTs[k + 1] = tickTs[k] + 1) =>
                          duration_secs(Windows(i)[n]) = ((b - a + 1) + 1) - 1

C3_Witness ==
    \E i \in StateIds :
        /\ fed[i] = <<FALSE, FALSE, TRUE>>
        /\ tickTs = <<0, 1, 2>>
        /\ Windows(i) = <<[start |-> 0, end |-> 2]>>

\* C4: every window of every target has end >= start, in every reachable
\* state (after creation, extension, closure on recovery and the forced
\* closure at shutdown); the clock of the model does not step backwards.
C4_EndGeStart ==
    \A i \in StateIds : \A k \in 1..Len(Windows(i)) :
        Windows(i)[k].end >= Windows(i)[k].start

C4_Witness ==
    /\ pc = "done"
    /\ \E i \in StateIds :
         /\ Len(Windows(i)) = 2
         /\ Windows(i)[1].end > Windows(i)[1].start
         /\ states[i].is_failing
         /\ Windows(i)[2].end > Windows(i)[2].start
    /\ \E j \in StateIds : \E k \in 1..Len(Windows(j)) :
         Windows(j)[k].end = Windows(j)[k].start

\* C5: the step that follows the loop's exit sets the end of the last window
\* of every Failing target to the shutdown timestamp, changes no window of a
\* Healthy target and no window but the last, and comes before the report.
C5_ShutdownStep ==
    (pc = "close_open" /\ pc' # "close_open") =>
        /\ pc' = "print_report"
        /\ ~report'.emitted
        /\ shutdownTs' # <<>>
        /\ Len(states') = Len(states)
        /\ \A i \in StateIds :
             /\ Len(states'[i].failures) = Len(states[i].failures)
             /\ states[i].is_failing =>
                   /\ Len(states'[i].failures) > 0
                   /\ Last(states'[i].failures).end = shutdownTs'[1]
             /\ ~states[i].is_failing => states'[i] = states[i]
             /\ \A k \in 1..(Len(states[i].failures) - 1) :
                   states'[i].failures[k] = states[i].failures[k]
C5_ShutdownClosure == [][C5_ShutdownStep]_vars

C5_Witness ==
    /\ pc = "print_report"
    /\ \E i \in StateIds :
         /\ states[i].is_failing
         /\ Last(Windows(i)).end = shutdownTs[1]
         /\ Last(tickTs) < shutdownTs[1]
    /\ \E j \in StateIds :
         /\ ~states[j].is_failing
         /\ Len(Windows(j)) > 0
         /\ Last(Windows(j)).end < shutdownTs[1]

\* C6 as stated: a window still open when the cancellation arrives (opened
\* before the Ctrl+C, its target Failing when the loop exits) has as end the
\* instant at which the flag was set.  Stated for a Ctrl+C that arrives
\* during the sleep, where the loop reads the flag only when the sleep ends.
C6_ClosedAtSignalInstant ==
    (AfterLoop /\ stopAt = "sleep") =>
        \A i \in StateIds :
            (states[i].is_failing /\ Last(Windows(i)).start < stopTime[1]) =>
                Last(Windows(i)).end = stopTime[1]

\* C6 amended: a window still open when the loop exits has as end the
\* timestamp read after the exit (511), which is not before the instant at
\* which the flag was set.
C6_ClosedAtLoopExit ==
    AfterLoop =>
        /\ stopTime # <<>>
        /\ shutdownTs # <<>>
        /\ stopTime[1] <= shutdownTs[1]
        /\ \A i \in StateIds :
              states[i].is_failing => Last(Windows(i)).end = shutdownTs[1]

C6_Witness ==
    /\ pc = "done"
    /\ stopAt = "sleep"
    /\ \E i \in StateIds :
         /\ states[i].is_failing
         /\ Last(Windows(i)).start < stopTime[1]
         /\ stopTime[1] < shutdownTs[1]
         /\ Last(Windows(i)).end = shutdownTs[1]

\* C7: if a target is false in the initial poll the program has exited with
\* a non-zero status and there is no target state, no tick, no window, no
\* snapshot and no report; the loop is entered only when every initial
\* result is true.
C7_InitialGate ==
    /\ (\E i \in 1..Len(initial_results) : ~initial_results[i]) =>
          /\ pc = "exited"
          /\ exitCode # <<>> /\ exitCode[1] # 0
          /\ states = <<>>
          /\ tickTs = <<>>
          /\ snapshots = 0
          /\ ~report.emitted
    /\ pc \notin {"initial_check", "exited"} =>
          /\ Len(initial_results) = NumTargets
          /\ \A i \in Targets : initial_results[i]
          /\ exitCode = <<>>

C7_Witness ==
    /\ pc = "exited"
    /\ \E i \in Targets : ~initial_results[i]
    /\ \E j \in Targets : initial_results[j]

\* C8: whatever the order in which the tasks finish, the results pushed so
\* far are index-aligned with the targets (results[k] is true exactly when
\* task k returned true; a task that cannot be joined gives false at its own
\* index), and check_all returns one boolean per target.
C8_IndexAligned ==
    /\ \A k \in 1..Len(results) : results[k] = (tasks[k] = "true")
    /\ Len(results) = joined
    /\ pc = "returned" => Len(results) = PollTargets

C8_Witness ==
    /\ pc = "returned"
    /\ finishOrder[1] # 1
    /\ \E i \in PollIds : tasks[i] = "join_error" /\ ~results[i]
    /\ \E j \in PollIds : tasks[j] = "true" /\ results[j]
    /\ \E j \in PollIds : tasks[j] = "false" /\ ~results[j]

ReportOrder == [k \in 1..Len(report.details) |-> report.details[k].target]
WithWindows == {i \in StateIds : Windows(i) # <<>>}

\* C9: the report lists exactly the targets with at least one window, each
\* once, ascending by the start of their first window, targets with equal
\* first starts in target-list order.
C9_ReportOrder ==
    report.emitted =>
        /\ {ReportOrder[k] : k \in 1..Len(ReportOrder)} = WithWindows
        /\ Len(ReportOrder) = Cardinality(WithWindows)
        /\ \A k \in 1..Len(ReportOrder) : \A l \in (k + 1)..Len(ReportOrder) :
             \/ Windows(ReportOrder[k])[1].start < Windows(ReportOrder[l])[1].start
             \/ /\ Windows(ReportOrder[k])[1].start = Windows(ReportOrder[l])[1].start
                /\ ReportOrder[k] < ReportOrder[l]

C9_Witness ==
    /\ report.emitted
    /\ Len(ReportOrder) = 2
    /\ ReportOrder[1] > ReportOrder[2]

\* C10: when some target has a window, the reported "failures started at"
\* is the minimum of the first-window starts of the targets with a window,
\* and is the first-window start of the first target listed.
C10_Earliest ==
    (report.emitted /\ WithWindows # {}) =>
        /\ ~report.no_downtime
        /\ Len(report.earliest) = 1
        /\ \E i \in WithWindows : Windows(i)[1].start = report.earliest[1]
        /\ \A i \in WithWindows : report.earliest[1] <= Windows(i)[1].start
        /\ Len(report.details) > 0
        /\ report.earliest[1] = Windows(report.details[1].target)[1].start

C10_Witness ==
    /\ report.emitted
    /\ Cardinality(WithWindows) = 2
    /\ \E i \in WithWindows :
         /\ report.earliest = <<Windows(i)[1].start>>
         /\ \E j \in WithWindows : j < i /\ Windows(j)[1].start > Windows(i)[1].start

\* Sum over a window list of max(1, end - start).
RECURSIVE SumDur(_)
SumDur(ws) ==
    IF ws = <<>> THEN 0
    ELSE (IF ws[1].end - ws[1].start >= 1 THEN ws[1].end - ws[1].start ELSE 1)
         + SumDur(Tail(ws))

RECURSIVE SumDowntime(_)
SumDowntime(ds) == IF ds = <<>> THEN 0 ELSE ds[1].downtime + SumDowntime(Tail(ds))

RECURSIVE SumAllTargets(_)
SumAllTargets(n) == IF n = 0 THEN 0 ELSE SumDur(Windows(n)) + SumAllTargets(n - 1)

\* C11: in the report every target's total downtime is the sum over its
\* windows of max(1, end - start), every window duration printed is that
\* value and at least 1, the window count is the length of the target's
\* window list, and the grand total is the sum of the per-target totals,
\* which is the sum of max(1, end - start) over all windows of all targets.
C11_Totals ==
    report.emitted =>
        /\ \A k \in 1..Len(report.details) :
             LET d  == report.details[k]
                 ws == Windows(d.target)
             IN  /\ d.downtime = SumDur(ws)
                 /\ d.count = Len(ws)
                 /\ Len(d.windows) = Len(ws)
                 /\ \A m \in 1..Len(ws) :
                      /\ d.windows[m].dur >= 1
                      /\ d.windows[m].dur = SumDur(<<ws[m]>>)
                      /\ d.windows[m].start = ws[m].start
        /\ report.total = SumDowntime(report.details)
        /\ report.total = SumAllTargets(Len(states))

C11_Witness ==
    /\ report.emitted
    /\ Len(report.details) = 2
    /\ \E i \in StateIds : \E m \in 1..Len(Windows(i)) :
         Windows(i)[m].end = Windows(i)[m].start
    /\ \E i \in StateIds : \E m \in 1..Len(Windows(i)) :
         Windows(i)[m].end - Windows(i)[m].start = 2
    /\ report.total >= 3

\* C12: the report is the "no downtime detected" summary exactly when no
\* target has a window, and that is the case when every result of every
\* tick was true.
C12_NoDowntime ==
    report.emitted =>
        /\ report.no_downtime <=> (\A i \in StateIds : Windows(i) = <<>>)
        /\ (\A i \in Targets : \A k \in 1..Len(fed[i]) : fed[i][k]) =>
              /\ \A i \in StateIds : Windows(i) = <<>>
              /\ report.no_downtime
              /\ report.details = <<>>

C12_Witness ==
    /\ report.emitted
    /\ report.no_downtime
    /\ Len(tickTs) >= 2
    /\ \A i \in Targets : \A k \in 1..Len(fed[i]) : fed[i][k]

\* C13: once the flag is set the loop exits, the windows still open are
\* closed and the report is printed; while the flag is not set the loop has
\* not exited and no report is printed.
C13_Termination ==
    /\ stop ~> /\ pc = "done"
               /\ report.emitted
               /\ shutdownTs # <<>>
               /\ \A i \in StateIds :
                    states[i].is_failing => Last(Windows(i)).end = shutdownTs[1]
    /\ [](~stop => /\ pc \notin {"close_open", "print_report", "done"}
                   /\ ~report.emitted)

C13_Witness ==
    /\ stop
    /\ stopAt = "check_all"
    /\ pc = "done"
    /\ report.emitted
    /\ \E i \in StateIds : states[i].is_failing


\* C14: every completed poll emits exactly one status snapshot, built after
\* that tick's tracker update from that tick's results; the report is emitted
\* once, after the loop has exited and the shutdown closure was applied, and
\* no snapshot follows it.
C14_Step ==
    /\ snapshots' = Len(tickTs')
    /\ tickTs' # tickTs => snapshots' = snapshots + 1
    /\ snapshots' # snapshots =>
         /\ snapshots' = snapshots + 1
         /\ Len(tickTs') = Len(tickTs) + 1
         /\ ~report.emitted
         /\ states' = UpdateStates(states, results', Last(tickTs'))
         /\ Len(status_block') = NumTargets
         /\ \A i \in Targets :
              /\ status_block'[i].target = states'[i].target
              /\ status_block'[i].ok = results'[i]
              /\ status_block'[i].ok = Last(fed'[i])
    /\ snapshots' = snapshots => status_block' = status_block
    /\ report' # report =>
         /\ ~report.emitted
         /\ report'.emitted
         /\ pc = "print_report"
         /\ shutdownTs # <<>>
         /\ states' = states
         /\ \A i \in StateIds :
              states[i].is_failing => Last(Windows(i)).end = shutdownTs[1]
    /\ report.emitted => snapshots' = snapshots

C14_SnapshotsAndReport ==
    /\ [][C14_Step]_vars
    /\ [](pc = "done" => report.emitted)

C14_Witness ==
    /\ pc = "done"
    /\ report.emitted
    /\ snapshots = 2
    /\ status_block[1].ok # status_block[2].ok
    /\ \E i \in StateIds : states[i].is_failing

\* C15: the HTTP check returns true exactly when the client was built, a
\* response came back and its status s has 200 <= s < 400; a client error, a
\* transport error or a timeout gives false; the result is always a boolean.
C15_HttpCheck ==
    (pc = "checked" /\ probe.kind = "http") =>
        /\ Len(probe.result) = 1
        /\ probe.result[1] \in BOOLEAN
        /\ probe.result[1] <=> /\ probe.client = "ok"
                               /\ probe.send = "response"
                               /\ 200 <= probe.status
                               /\ probe.status < 400
        /\ probe.client = "error" => ~probe.result[1]
        /\ probe.send \in {"error", "timeout"} => ~probe.result[1]

C15_Witness ==
    /\ pc = "checked"
    /\ probe.kind = "http"
    /\ probe.client = "ok"
    /\ probe.send = "response"
    /\ probe.status = 399
    /\ probe.result = <<TRUE>>

\* The state of target t after the tracker consumed the results rs at the
\* instants ts, starting from the initial state.
RECURSIVE Replay(_, _, _)
Replay(t, rs, ts) ==
    IF rs = <<>> THEN InitState(t)
    ELSE UpdateState(Replay(t, Front(rs), Front(ts)), Last(rs), Last(ts))

\* C16: in a tick the new status and windows of target i are determined by
\* its own previous state, its own result and the tick instant: with any
\* other results and any other states for the other targets the update gives
\* target i the same state; over the whole loop, the state of target i is
\* the replay of its own results alone.
C16_Step ==
    tickTs' # tickTs =>
        \A i \in Targets :
            /\ states'[i] = UpdateState(states[i], results'[i], Last(tickTs'))
            /\ \A rs \in [Targets -> BOOLEAN], others \in [Targets -> BOOLEAN] :
                 LET sts == [j \in Targets |->
                               IF j = i \/ others[j] THEN states[j] ELSE InitState(j)]
                 IN  rs[i] = results'[i] =>
                        UpdateStates(sts, rs, Last(tickTs'))[i] = states'[i]

C16_Independent ==
    /\ [][C16_Step]_vars
    /\ []((pc \in {"loop_top", "sleep", "check_all"}) =>
            \A i \in Targets : states[i] = Replay(i, fed[i], tickTs))

C16_Witness ==
    /\ pc = "loop_top"
    /\ Len(tickTs) = 2
    /\ fed[1] = <<FALSE, TRUE>>
    /\ fed[2] = <<TRUE, FALSE>>
    /\ ~states[1].is_failing /\ Len(Windows(1)) = 1
    /\ states[2].is_failing /\ Len(Windows(2)) = 1

\* The window k of target i is open: the next tick stamps its end whatever
\* the result is.  The instant MaxTime + 1 is later than every reading.
OpenWindow(i, k) ==
    \A ok \in BOOLEAN :
        UpdateState(states[i], ok, MaxTime + 1).failures[k].end = MaxTime + 1

\* C17: during monitoring a target is Failing iff its last window is open; a
\* Failing target has a window; no window but the last is open; a step never
\* modifies a window that is not the last, never modifies a window of a
\* target that was Healthy, never changes a start and never removes a window.
C17_State ==
    (pc \in {"loop_top", "sleep", "check_all"}) =>
        \A i \in StateIds :
            /\ states[i].is_failing =>  Windows(i) # <<>>
            /\ states[i].is_failing <=>
                 (Windows(i) # <<>> /\ OpenWindow(i, Len(Windows(i))))
            /\ \A k \in 1..(Len(Windows(i)) - 1) : ~OpenWindow(i, k)

C17_Step ==
    /\ states # <<>> => Len(states') = Len(states)
    /\ \A i \in StateIds :
         /\ Len(states'[i].failures) >= Len(Windows(i))
         /\ \A k \in 1..Len(Windows(i)) :
              /\ states'[i].failures[k].start = Windows(i)[k].start
              /\ k < Len(Windows(i)) => states'[i].failures[k] = Windows(i)[k]
              /\ ~states[i].is_failing => states'[i].failures[k] = Windows(i)[k]

C17_WindowDiscipline ==
    /\ []C17_State
    /\ [][C17_Step]_vars

C17_Witness ==
    /\ pc = "done"
    /\ Len(tickTs) = 3
    /\ \E i, j \in StateIds :
         /\ states[i].is_failing
         /\ Len(Windows(i)) = 2
         /\ Windows(i)[2].start < Windows(i)[2].end
         /\ ~states[j].is_failing
         /\ Len(Windows(j)) = 1

\* C18: ticks do not overlap and nothing else touches the state vector.  A
\* tracker update starts only when every task of the tick's check_all call
\* has ended and was joined; a check_all call and a sleep start only when
\* every earlier tick was updated and printed and none of its tasks is still
\* running; `states` changes only in the tracker update and the shutdown
\* closure of main(), never in a step of a task or of the signal handler;
\* print_report reads it after the loop, with no task running.
C18_Step ==
    /\ tickTs' # tickTs =>
         /\ pc = "returned"
         /\ joined = PollTargets
         /\ Len(results) = PollTargets
         /\ \A i \in PollIds : tasks[i] \in Outcomes
    /\ (pc' = "spawn" /\ pc # "spawn") =>
         /\ pc = "check_all"
         /\ snapshots = Len(tickTs)
         /\ \A i \in PollIds : tasks'[i] = "unspawned"
    /\ (pc' = "sleep" /\ pc # "sleep") =>
         /\ snapshots = Len(tickTs)
         /\ \A i \in PollIds : tasks[i] # "running"
    /\ states' # states =>
         /\ \/ pc = "returned" /\ pc' = "loop_top"
            \/ pc = "close_open" /\ pc' = "print_report"
         /\ tasks' = tasks
         /\ stop' = stop
    /\ report' # report =>
         /\ pc = "print_report"
         /\ states' = states
         /\ \A i \in PollIds : tasks[i] # "running"

C18_State ==
    /\ pc \notin {"spawn", "join"} => \A i \in PollIds : tasks[i] # "running"
    /\ pc \in {"spawn", "join", "returned"} => snapshots = Len(tickTs)

C18_NoOverlap ==
    /\ []C18_State
    /\ [][C18_Step]_vars

C18_Witness ==
    /\ pc = "done"
    /\ report.emitted
    /\ Len(tickTs) = 2
    /\ stopAt = "check_all"
    /\ Len(finishOrder) = PollTargets
    /\ finishOrder[1] = PollTargets
    /\ \E i \in PollIds : states[i].is_failing

\* C19: the loop acts on the flag only where it reads it, before and after
\* the sleep: a sleep runs its whole Interval and a poll is completed,
\* updated and printed even with the flag set, and the loop is left only at
\* these two reads; the loop is left no later than Interval + Timeout after
\* the flag was set.
C19_Step ==
    /\ (pc = "sleep" /\ pc' # "sleep") =>
         /\ clock' = clock + Interval
         /\ pc' = IF stop THEN "close_open" ELSE "check_all"
    /\ (pc = "check_all" /\ pc' # "check_all") =>
         /\ pc' = "loop_top"
         /\ Len(tickTs') = Len(tickTs) + 1
         /\ snapshots' = snapshots + 1
         /\ clock' <= clock + Timeout
    /\ (pc' = "close_open" /\ pc # "close_open") =>
         /\ stop
         /\ pc \in {"loop_top", "sleep"}
    /\ (pc = "loop_top" /\ pc' # "loop_top") =>
         pc' = IF stop THEN "close_open" ELSE "sleep"

C19_Bound ==
    shutdownTs # <<>> =>
        /\ stopTime # <<>>
        /\ stopTime[1] <= shutdownTs[1]
        /\ shutdownTs[1] - stopTime[1] <= Interval + Timeout

C19_TickBoundaries ==
    /\ []C19_Bound
    /\ [][C19_Step]_vars

C19_Witness ==
    /\ pc = "done"
    /\ stopAt = "check_all"
    /\ Len(tickTs) >= 2
    /\ shutdownTs[1] - stopTime[1] = Timeout

\* C20: once the flag is set, a poll with its tracker update and snapshot
\* happens only if the flag was set after the read that follows the sleep,
\* and then once: with the flag set the loop never enters a sleep or a poll;
\* a flag set before or during a sleep is followed by no poll, no update and
\* no snapshot.
C20_Step ==
    /\ (stop /\ pc' = "sleep") => pc = "sleep"
    /\ (stop /\ pc' = "check_all") => pc = "check_all"
    /\ (stop /\ pc = "loop_top" /\ pc' # pc) => pc' = "close_open"
    /\ (stop /\ pc = "sleep" /\ pc' # pc) => pc' = "close_open"
    /\ (stop /\ (tickTs' # tickTs \/ snapshots' # snapshots)) =>
         /\ stopAt = "check_all"
         /\ pc = "check_all"
         /\ pc' = "loop_top"
    /\ (stop /\ stopAt \in {"loop_top", "sleep"}) =>
         /\ tickTs' = tickTs
         /\ snapshots' = snapshots
         /\ status_block' = status_block
         /\ states' # states => pc = "close_open"

C20_State ==
    stop =>
        /\ stopAt = "loop_top" =>
             pc \in {"loop_top", "close_open", "print_report", "done"}
        /\ stopAt = "sleep" =>
             pc \in {"sleep", "close_open", "print_report", "done"}
        /\ stopAt = "check_all" =>
             pc \in {"check_all", "loop_top", "close_open", "print_report", "done"}

C20_AtMostOnePoll ==
    /\ []C20_State
    /\ [][C20_Step]_vars

C20_Witness ==
    /\ pc = "done"
    /\ stopAt = "check_all"
    /\ Len(tickTs) = 2
    /\ Last(tickTs) > stopTime[1]
    /\ snapshots = 2

=============================================================================
